---- MODULE Spec2Model ----
(***************************************************************************)
(* Model of the shipment-tracking core of main.py: the classes Cliente,    *)
(* Destinatario and Envio, and the service SistemaGestionEnvios with its   *)
(* two in-memory dictionaries and the two JSON documents under datos/.     *)
(*                                                                         *)
(* Representation.                                                         *)
(*  - A Python dict is a TLA+ function; its key set is DOMAIN.  The order  *)
(*    in which it holds its keys (the order of first assignment) is a      *)
(*    sequence of the keys: orden for the two dictionaries of the service, *)
(*    the field orden for a JSON document.                                 *)
(*  - A datetime.datetime is [dia, seg, micro]: the calendar day (an       *)
(*    ordinal standing for a date with a four-digit year), the second of   *)
(*    the day and the microsecond.  A datetime.time is [seg, micro].       *)
(*    The days are counted from 1000-01-01, which is day 1: a day below 1  *)
(*    is a date of a year with fewer than four digits.                     *)
(*  - The text "YYYY-MM-DD" is the day ordinal, "HH:MM:SS" the second of   *)
(*    the day, "YYYY-MM-DD HH:MM:SS" the whole second [dia, seg]: each     *)
(*    text is represented by exactly the information it carries.           *)
(*  - datetime.now() formatted with "%Y-%m-%d %H:%M:%S" is the wall clock  *)
(*    in whole seconds, an integer.                                        *)
(*  - str(uuid.uuid4()) is a value of the set Guias not yet in use.        *)
(*  - A raised ValueError is the error kind recorded in ultima.res.        *)
(***************************************************************************)
EXTENDS Integers, Sequences, FiniteSets, TLC

VARIABLES clientes, envios, orden, disco, reloj, fallos, ultima

vars == <<clientes, envios, orden, disco, reloj, fallos, ultima>>

(***************************************************************************)
(* Bounds of the model.                                                    *)
(***************************************************************************)
\* Status updates that succeed in a run, over all shipments together.
MaxAvances == 2

\* Last second of the wall clock.
MaxReloj == 1

\* Persist steps that fail in a run.
MaxFallos == 1

\* Longest list of tracking numbers handed to buscar_multiple_envios.
MaxLista == 2

(***************************************************************************)
(* Program constants.                                                      *)
(***************************************************************************)
TIPOS_ID == <<"CC", "TI", "CE">>

ESTADOS_ENVIO ==
    <<"Recibido", "En Tránsito", "En Ciudad Destino",
      "En Bodega De La Transportadora", "En Reparto", "Entregado">>

DESCRIPCION_INICIAL == "Paquete recibido en la oficina"

Rango(s) == {s[i] : i \in 1..Len(s)}

Ultimo(s) == s[Len(s)]

VACIO == [x \in {} |-> x]

\* The day ordinal of 1000-01-01, the first date whose year has four digits.
DIA_1000_01_01 == 1

(***************************************************************************)
(* Input pools.                                                            *)
(***************************************************************************)
\* Identifiers a caller registers, and the values uuid4 may produce.
Ids == {"1001", "1002"}

Guias == {"g-a", "g-b"}

ID_AUSENTE == "9999"

GUIA_AUSENTE == "g-zz"

TiposEntrada == Rango(TIPOS_ID) \cup {"NIT"}

EstadosEntrada == Rango(ESTADOS_ENVIO) \cup {"Perdido"}

Descripciones == {"", "nota"}

\* None where a string is expected, and None where an object is expected.
NINGUNO == "None"

None == [none |-> TRUE]

\* What an operator gives when the code raises ValueError.
ValueError == [error |-> "ValueError"]

IOs == {"ok", "abrir_clientes", "escribir_clientes", "abrir_envios", "escribir_envios"}

(***************************************************************************)
(* class Cliente                                                           *)
(***************************************************************************)
\* The constructor raises ValueError unless tipo_id is one of TIPOS_ID.
Cliente_valido(tipo_id) == tipo_id \in Rango(TIPOS_ID)

Cliente(nombres, apellidos, id_numero, tipo_id, direccion, telefono_fijo, celular, barrio) ==
    [nombres |-> nombres, apellidos |-> apellidos, id_numero |-> id_numero,
     tipo_id |-> tipo_id, direccion |-> direccion,
     telefono_fijo |-> telefono_fijo, celular |-> celular, barrio |-> barrio]

Cliente_to_dict(c) ==
    [nombres |-> c.nombres, apellidos |-> c.apellidos, id_numero |-> c.id_numero,
     tipo_id |-> c.tipo_id, direccion |-> c.direccion,
     telefono_fijo |-> c.telefono_fijo, celular |-> c.celular, barrio |-> c.barrio]

\* from_dict calls the constructor, which raises on a tipo_id outside TIPOS_ID.
Cliente_from_dict(data) ==
    IF ~Cliente_valido(data.tipo_id) THEN ValueError
    ELSE Cliente(data.nombres, data.apellidos, data.id_numero, data.tipo_id,
                 data.direccion, data.telefono_fijo, data.celular, data.barrio)

\* "if direccion:" is false for None and for the empty string.
Truthy(v) == v # NINGUNO /\ v # ""

\* Mutant: "is not None" instead of truthiness, an empty string overwrites.
Mut_actualizar_informacion_vacios(c, direccion, telefono_fijo, celular, barrio) ==
    [c EXCEPT !.direccion = IF direccion # NINGUNO THEN direccion ELSE @,
              !.telefono_fijo = IF telefono_fijo # NINGUNO THEN telefono_fijo ELSE @,
              !.celular = IF celular # NINGUNO THEN celular ELSE @,
              !.barrio = IF barrio # NINGUNO THEN barrio ELSE @]

actualizar_informacion(c, direccion, telefono_fijo, celular, barrio) ==
    [c EXCEPT !.direccion = IF Truthy(direccion) THEN direccion ELSE @,
              !.telefono_fijo = IF Truthy(telefono_fijo) THEN telefono_fijo ELSE @,
              !.celular = IF Truthy(celular) THEN celular ELSE @,
              !.barrio = IF Truthy(barrio) THEN barrio ELSE @]

(***************************************************************************)
(* class Destinatario                                                      *)
(***************************************************************************)
Destinatario(nombre, direccion, telefono, ciudad, barrio) ==
    [nombre |-> nombre, direccion |-> direccion, telefono |-> telefono,
     ciudad |-> ciudad, barrio |-> barrio]

Destinatario_to_dict(d) ==
    [nombre |-> d.nombre, direccion |-> d.direccion, telefono |-> d.telefono,
     ciudad |-> d.ciudad, barrio |-> d.barrio]

Destinatario_from_dict(data) ==
    Destinatario(data.nombre, data.direccion, data.telefono, data.ciudad, data.barrio)

(***************************************************************************)
(* class Envio                                                             *)
(***************************************************************************)
\* datetime.time(): the time of day of a datetime, microsecond included.
time(dt) == [seg |-> dt.seg, micro |-> dt.micro]

\* strftime("%Y-%m-%d") of a datetime: the date, nothing of the time of day.
strftime_fecha(dt) == dt.dia

\* strftime("%H:%M:%S") of a time: whole seconds, the microsecond is not printed.
strftime_hora(t) == t.seg

\* strftime("%Y-%m-%d") writes a year below 1000 without leading zeros
\* (the C library's %Y), and strptime's %Y matches four digits only: it
\* raises ValueError on such a text.
strptime_falla(fecha) == fecha < DIA_1000_01_01

\* strptime(date + " " + time, "%Y-%m-%d %H:%M:%S"): the microsecond is 0;
\* ValueError on a date text whose year has fewer than four digits.
strptime_fecha_hora(fecha, hora) ==
    IF strptime_falla(fecha) THEN ValueError
    ELSE [dia |-> fecha, seg |-> hora, micro |-> 0]

Entrada(estado, fecha, descripcion) ==
    [estado |-> estado, fecha |-> fecha, descripcion |-> descripcion]

\* Mutant: the first entry is stamped with the send time, not the clock.
Mut_Envio_fecha_de_envio(fecha_envio, destinatario, id_remitente, numero_guia, ahora) ==
    [fecha_envio |-> fecha_envio,
     hora_envio |-> time(fecha_envio),
     destinatario |-> destinatario,
     id_remitente |-> id_remitente,
     numero_guia |-> numero_guia,
     estado |-> ESTADOS_ENVIO[1],
     historial_estados |->
        <<Entrada(ESTADOS_ENVIO[1], fecha_envio.seg, DESCRIPCION_INICIAL)>>]

Envio(fecha_envio, destinatario, id_remitente, numero_guia, ahora) ==
    [fecha_envio |-> fecha_envio,
     hora_envio |-> time(fecha_envio),
     destinatario |-> destinatario,
     id_remitente |-> id_remitente,
     numero_guia |-> numero_guia,
     estado |-> ESTADOS_ENVIO[1],
     historial_estados |-> <<Entrada(ESTADOS_ENVIO[1], ahora, DESCRIPCION_INICIAL)>>]

\* Mutants of the validation: nothing is rejected; the first status of the
\* list is left out.
Mut_Estado_valido_todo(nuevo_estado) == TRUE

Mut_Estado_valido_sin_primero(nuevo_estado) == nuevo_estado \in Rango(Tail(ESTADOS_ENVIO))

\* The method raises ValueError, before any assignment, unless this holds.
Estado_valido(nuevo_estado) == nuevo_estado \in Rango(ESTADOS_ENVIO)

\* Mutants of Envio.actualizar_estado: the entry is appended but estado is
\* not assigned; the history is replaced by the new entry instead of extended.
Mut_actualizar_estado_sin_asignar(e, nuevo_estado, descripcion, ahora) ==
    [e EXCEPT !.historial_estados = Append(@, Entrada(nuevo_estado, ahora, descripcion))]

Mut_actualizar_estado_reemplaza(e, nuevo_estado, descripcion, ahora) ==
    [e EXCEPT !.estado = nuevo_estado,
              !.historial_estados = <<Entrada(nuevo_estado, ahora, descripcion)>>]

Envio_actualizar_estado(e, nuevo_estado, descripcion, ahora) ==
    [e EXCEPT !.estado = nuevo_estado,
              !.historial_estados = Append(@, Entrada(nuevo_estado, ahora, descripcion))]

Envio_to_dict(e) ==
    [fecha_envio |-> strftime_fecha(e.fecha_envio),
     hora_envio |-> strftime_hora(e.hora_envio),
     destinatario |-> Destinatario_to_dict(e.destinatario),
     id_remitente |-> e.id_remitente,
     numero_guia |-> e.numero_guia,
     estado |-> e.estado,
     historial_estados |-> e.historial_estados]

\* The constructor's own numero_guia, estado and historial_estados are
\* overwritten by the stored ones, so neither uuid4 nor the clock shows.
\* The strptime of line 153 raises before anything is built.
Envio_from_dict(data) ==
    LET fecha_envio == strptime_fecha_hora(data.fecha_envio, data.hora_envio)
    IN  IF fecha_envio = ValueError THEN ValueError
        ELSE [fecha_envio |-> fecha_envio,
              hora_envio |-> time(fecha_envio),
              destinatario |-> Destinatario_from_dict(data.destinatario),
              id_remitente |-> data.id_remitente,
              numero_guia |-> data.numero_guia,
              estado |-> data.estado,
              historial_estados |-> data.historial_estados]

(***************************************************************************)
(* The document store: datos/clientes.json and datos/envios.json.  A file  *)
(* is absent, holds a JSON document, or was cut short by a failed write    *)
(* (json.load then raises).                                                *)
(***************************************************************************)
Ausente == [archivo |-> "ausente", datos |-> VACIO, orden |-> <<>>]

Corrupto == [archivo |-> "corrupto", datos |-> VACIO, orden |-> <<>>]

\* A JSON object: its members and the order they are written in.
Documento(data) == [archivo |-> "json", datos |-> data.datos, orden |-> data.orden]

\* Line 201: one member per key of self.clientes, in the dictionary's order.
clientes_data(cs, o) ==
    [datos |-> [id \in DOMAIN cs |-> Cliente_to_dict(cs[id])], orden |-> o]

\* Line 207: the comprehension is keyed by each shipment's own numero_guia;
\* of two shipments with the same numero_guia the later one in the
\* dictionary's order is kept, at the place of the earlier one.
envios_data(es, o) ==
    LET d[i \in 0..Len(o)] ==
            IF i = 0 THEN [datos |-> VACIO, orden |-> <<>>]
            ELSE LET envio == es[o[i]]
                     antes == d[i - 1]
                 IN  [datos |-> (envio.numero_guia :> Envio_to_dict(envio)) @@ antes.datos,
                      orden |-> IF envio.numero_guia \in DOMAIN antes.datos
                                THEN antes.orden
                                ELSE Append(antes.orden, envio.numero_guia)]
    IN  d[Len(o)]

\* Mutant: only the customers document is written.
Mut_guardar_datos_solo_clientes(cs, es, o, d, io) ==
    IF io \in {"ok", "abrir_envios"}
    THEN [d EXCEPT !.clientes = Documento(clientes_data(cs, o.clientes))]
    ELSE IF io = "abrir_clientes" THEN d
    ELSE IF io = "escribir_clientes" THEN [d EXCEPT !.clientes = Corrupto]
    ELSE [clientes |-> Documento(clientes_data(cs, o.clientes)), envios |-> Corrupto]

\* guardar_datos: the state of the two files after the call.  io names the
\* step at which an exception, if any, leaves the try block: open(.., "w")
\* fails and the file is untouched, or json.dump fails on the opened
\* (already truncated) file.
guardar_datos(cs, es, o, d, io) ==
    CASE io = "ok" ->
            [clientes |-> Documento(clientes_data(cs, o.clientes)),
             envios |-> Documento(envios_data(es, o.envios))]
      [] io = "abrir_clientes" -> d
      [] io = "escribir_clientes" -> [d EXCEPT !.clientes = Corrupto]
      [] io = "abrir_envios" -> [d EXCEPT !.clientes = Documento(clientes_data(cs, o.clientes))]
      [] io = "escribir_envios" ->
            [clientes |-> Documento(clientes_data(cs, o.clientes)), envios |-> Corrupto]

\* The loop of lines 186-187: the members of the customers' file in order,
\* up to the first one whose from_dict raises.  error tells whether the
\* try block was left: by json.load on a file cut short, or by from_dict.
leer_clientes(d) ==
    LET o == d.clientes.orden
        c[i \in 0..Len(o)] ==
            IF i = 0 THEN [datos |-> VACIO, orden |-> <<>>, error |-> FALSE]
            ELSE LET antes == c[i - 1]
                     cliente == Cliente_from_dict(d.clientes.datos[o[i]])
                 IN  IF antes.error \/ cliente = ValueError
                     THEN [antes EXCEPT !.error = TRUE]
                     ELSE [datos |-> (o[i] :> cliente) @@ antes.datos,
                           orden |-> Append(antes.orden, o[i]),
                           error |-> FALSE]
    IN  IF d.clientes.archivo = "corrupto"
        THEN [datos |-> VACIO, orden |-> <<>>, error |-> TRUE]
        ELSE c[Len(o)]

\* The loop of lines 193-194, reached only when the customers were read
\* without an exception: the members of the shipments' file in order, up to
\* the first one whose from_dict raises.
leer_envios(d) ==
    LET o == d.envios.orden
        e[i \in 0..Len(o)] ==
            IF i = 0 THEN [datos |-> VACIO, orden |-> <<>>, error |-> FALSE]
            ELSE LET antes == e[i - 1]
                     envio == Envio_from_dict(d.envios.datos[o[i]])
                 IN  IF antes.error \/ envio = ValueError
                     THEN [antes EXCEPT !.error = TRUE]
                     ELSE [datos |-> (o[i] :> envio) @@ antes.datos,
                           orden |-> Append(antes.orden, o[i]),
                           error |-> FALSE]
    IN  IF leer_clientes(d).error \/ d.envios.archivo = "corrupto"
        THEN [datos |-> VACIO, orden |-> <<>>, error |-> TRUE]
        ELSE e[Len(o)]

\* cargar_datos into the empty dictionaries of a new SistemaGestionEnvios:
\* the exception is caught and printed, what was assigned before it stays.
cargar_clientes(d) == leer_clientes(d).datos

cargar_envios(d) == leer_envios(d).datos

cargar_orden(d) == [clientes |-> leer_clientes(d).orden, envios |-> leer_envios(d).orden]

(***************************************************************************)
(* class SistemaGestionEnvios.  ultima records the last call: the          *)
(* operation, the argument its validation reads (tipo_id, nuevo_estado),   *)
(* whether it returned ("ok") or the error it raised, and what became of   *)
(* its persist step.                                                       *)
(***************************************************************************)
Llamada(op, arg, res, io) == [op |-> op, arg |-> arg, res |-> res, io |-> io]

\* A call that raises before it changes anything.
Falla(op, arg, res) ==
    /\ ultima' = Llamada(op, arg, res, "sin_guardar")
    /\ UNCHANGED <<clientes, envios, orden, disco, reloj, fallos>>

\* The order of a dictionary after the assignments of a call: a key
\* assigned for the first time goes last, the others keep their place.
orden_tras(o, dic) ==
    LET queda(k) == k \in DOMAIN dic
        viejos == SelectSeq(o, queda)
        nuevos == DOMAIN dic \ Rango(o)
    IN  IF nuevos = {} THEN viejos ELSE Append(viejos, CHOOSE k \in nuevos : TRUE)

Insertar ==
    orden' = [clientes |-> orden_tras(orden.clientes, clientes'),
              envios |-> orden_tras(orden.envios, envios')]

\* Mutant: a persist that fails is tried again, and the second try succeeds.
Mut_Persistir_reintenta(io) ==
    /\ io # "ok" => fallos < MaxFallos
    /\ disco' = guardar_datos(clientes', envios', orden', disco, "ok")
    /\ fallos' = IF io = "ok" THEN fallos ELSE fallos + 1

\* The persist step that ends every mutating call; its exception is caught
\* and printed inside guardar_datos, so the call returns normally.
Persistir(io) ==
    /\ io # "ok" => fallos < MaxFallos
    /\ disco' = guardar_datos(clientes', envios', orden', disco, io)
    /\ fallos' = IF io = "ok" THEN fallos ELSE fallos + 1

buscar_cliente(id_numero) ==
    IF id_numero \in DOMAIN clientes THEN clientes[id_numero] ELSE None

buscar_envio(numero_guia) ==
    IF numero_guia \in DOMAIN envios THEN envios[numero_guia] ELSE None

\* uuid.uuid4(): the values a new shipment may get.  A random 122-bit value
\* is taken never to repeat one this run or its files already hold.
uuid4 == Guias \ (DOMAIN envios \cup DOMAIN disco.envios.datos)

Init ==
    /\ disco = [clientes |-> Ausente, envios |-> Ausente]
    /\ clientes = cargar_clientes(disco)
    /\ envios = cargar_envios(disco)
    /\ orden = cargar_orden(disco)
    /\ reloj = 0
    /\ fallos = 0
    /\ ultima = Llamada("__init__", "", "ok", "sin_guardar")

\* A new process: SistemaGestionEnvios() on the files the last one left.
reiniciar ==
    /\ clientes' = cargar_clientes(disco)
    /\ envios' = cargar_envios(disco)
    /\ orden' = cargar_orden(disco)
    /\ ultima' = Llamada("__init__", "", "ok", "sin_guardar")
    /\ UNCHANGED <<disco, reloj, fallos>>

\* Mutant: the dictionary is replaced by one holding the new customer alone.
Mut_insertar_cliente_reemplaza(nombres, apellidos, id_numero, tipo_id, direccion, telefono_fijo, celular, barrio, io) ==
    /\ clientes' = (id_numero :> Cliente(nombres, apellidos, id_numero, tipo_id,
                                         direccion, telefono_fijo, celular, barrio))
    /\ envios' = envios
    /\ Insertar
    /\ Persistir(io)
    /\ ultima' = Llamada("registrar_cliente", tipo_id, "ok", io)
    /\ UNCHANGED reloj

\* Lines 220-233: build the Cliente, insert it, persist, return it.
insertar_cliente(nombres, apellidos, id_numero, tipo_id, direccion, telefono_fijo, celular, barrio, io) ==
    /\ clientes' = (id_numero :> Cliente(nombres, apellidos, id_numero, tipo_id,
                                         direccion, telefono_fijo, celular, barrio))
                   @@ clientes
    /\ envios' = envios
    /\ Insertar
    /\ Persistir(io)
    /\ ultima' = Llamada("registrar_cliente", tipo_id, "ok", io)
    /\ UNCHANGED reloj

\* Mutant: the identifier type is validated before the duplicate check.
Mut_registrar_cliente_tipo_primero(nombres, apellidos, id_numero, tipo_id, direccion, telefono_fijo, celular, barrio, io) ==
    IF ~Cliente_valido(tipo_id)
    THEN Falla("registrar_cliente", tipo_id, "InvalidIdentifierType")
    ELSE IF id_numero \in DOMAIN clientes
    THEN Falla("registrar_cliente", tipo_id, "DuplicateIdentifier")
    ELSE insertar_cliente(nombres, apellidos, id_numero, tipo_id, direccion,
                          telefono_fijo, celular, barrio, io)

registrar_cliente(nombres, apellidos, id_numero, tipo_id, direccion, telefono_fijo, celular, barrio, io) ==
    IF id_numero \in DOMAIN clientes
    THEN Falla("registrar_cliente", tipo_id, "DuplicateIdentifier")
    ELSE IF ~Cliente_valido(tipo_id)
    THEN Falla("registrar_cliente", tipo_id, "InvalidIdentifierType")
    ELSE insertar_cliente(nombres, apellidos, id_numero, tipo_id, direccion,
                          telefono_fijo, celular, barrio, io)

actualizar_cliente(id_numero, direccion, telefono_fijo, celular, barrio, io) ==
    IF id_numero \notin DOMAIN clientes
    THEN Falla("actualizar_cliente", "", "NotFound")
    ELSE /\ clientes' = [clientes EXCEPT ![id_numero] =
                            actualizar_informacion(@, direccion, telefono_fijo, celular, barrio)]
         /\ envios' = envios
         /\ Insertar
         /\ Persistir(io)
         /\ ultima' = Llamada("actualizar_cliente", "", "ok", io)
         /\ UNCHANGED reloj

\* Mutant: the sender is not looked up.
Mut_remitente_sin_verificar(id_remitente) == TRUE

\* "if id_remitente not in self.clientes: raise"
remitente_registrado(id_remitente) == id_remitente \in DOMAIN clientes

\* Mutant: the shipment is stored under the sender's identifier.
Mut_guardar_envio_por_remitente(es, envio) == (envio.id_remitente :> envio) @@ es

\* "self.envios[envio.numero_guia] = envio"
guardar_envio(es, envio) == (envio.numero_guia :> envio) @@ es

registrar_envio(fecha_envio, nombre, direccion, telefono, ciudad, barrio, id_remitente, numero_guia, ahora, io) ==
    IF ~remitente_registrado(id_remitente)
    THEN Falla("registrar_envio", "", "NotFound")
    ELSE LET envio == Envio(fecha_envio,
                            Destinatario(nombre, direccion, telefono, ciudad, barrio),
                            id_remitente, numero_guia, ahora)
         IN  /\ numero_guia \in uuid4
             /\ envios' = guardar_envio(envios, envio)
             /\ clientes' = clientes
             /\ reloj' = ahora
             /\ Insertar
             /\ Persistir(io)
             /\ ultima' = Llamada("registrar_envio", "", "ok", io)

Avances == LET n[S \in SUBSET DOMAIN envios] ==
                   IF S = {} THEN 0
                   ELSE LET g == CHOOSE x \in S : TRUE
                        IN  Len(envios[g].historial_estados) - 1 + n[S \ {g}]
           IN  n[DOMAIN envios]

actualizar_estado_envio(numero_guia, nuevo_estado, descripcion, ahora, io) ==
    IF buscar_envio(numero_guia) = None
    THEN Falla("actualizar_estado_envio", nuevo_estado, "NotFound")
    ELSE IF ~Estado_valido(nuevo_estado)
    THEN Falla("actualizar_estado_envio", nuevo_estado, "InvalidStatus")
    ELSE /\ Avances < MaxAvances
         /\ envios' = [envios EXCEPT ![numero_guia] =
                          Envio_actualizar_estado(@, nuevo_estado, descripcion, ahora)]
         /\ clientes' = clientes
         /\ reloj' = ahora
         /\ Insertar
         /\ Persistir(io)
         /\ ultima' = Llamada("actualizar_estado_envio", nuevo_estado, "ok", io)

(***************************************************************************)
(* Queries.  They read the dictionaries and change nothing.  A list built  *)
(* by a comprehension over self.envios.values() is the set of its keys:    *)
(* the counts and sums taken from it do not depend on the order.           *)
(***************************************************************************)
\* strptime(text, "%Y-%m-%d"): midnight of that day; .date(): its day.
strptime_fecha(fecha) == [dia |-> fecha, seg |-> 0, micro |-> 0]

date(dt) == dt.dia

fecha_de_envio(e) == date(strptime_fecha(strftime_fecha(e.fecha_envio)))

\* Mutant: the end of the period is excluded.
Mut_en_periodo_fin_excluido(e, fecha_inicio, fecha_fin) ==
    fecha_de_envio(e) >= fecha_inicio /\ fecha_de_envio(e) < fecha_fin

\* The condition of the comprehension of lines 303-307.
en_periodo(e, fecha_inicio, fecha_fin) ==
    fecha_de_envio(e) >= fecha_inicio /\ fecha_de_envio(e) <= fecha_fin

envios_periodo(es, fecha_inicio, fecha_fin) ==
    {g \in DOMAIN es : en_periodo(es[g], fecha_inicio, fecha_fin)}

\* Lines 310-312: a zero for every status, then one increment per shipment.
conteo_estados(es, periodo) ==
    LET c[S \in SUBSET periodo] ==
            IF S = {} THEN [estado \in Rango(ESTADOS_ENVIO) |-> 0]
            ELSE LET g == CHOOSE x \in S : TRUE
                 IN  [c[S \ {g}] EXCEPT ![es[g].estado] = @ + 1]
    IN  c[periodo]

\* Mutant: the first shipment of a city creates its counter and is not counted.
Mut_conteo_ciudades_sin_primero(es, periodo) ==
    LET c[S \in SUBSET periodo] ==
            IF S = {} THEN VACIO
            ELSE LET g == CHOOSE x \in S : TRUE
                     ciudad == es[g].destinatario.ciudad
                     antes == c[S \ {g}]
                 IN  IF ciudad \notin DOMAIN antes
                     THEN (ciudad :> 0) @@ antes
                     ELSE [antes EXCEPT ![ciudad] = @ + 1]
    IN  c[periodo]

\* Lines 315-320: a counter is created at 0 for a new city, then incremented.
conteo_ciudades(es, periodo) ==
    LET c[S \in SUBSET periodo] ==
            IF S = {} THEN VACIO
            ELSE LET g == CHOOSE x \in S : TRUE
                     ciudad == es[g].destinatario.ciudad
                     antes == c[S \ {g}]
                     creado == IF ciudad \notin DOMAIN antes
                               THEN (ciudad :> 0) @@ antes ELSE antes
                 IN  [creado EXCEPT ![ciudad] = @ + 1]
    IN  c[periodo]

envios_entregados(es, periodo) == {g \in periodo : es[g].estado = "Entregado"}

\* Mutant: the loop has no break, the last "Entregado" entry is kept.
Mut_ultimo_entregado(historial) ==
    LET f[i \in 0..Len(historial)] ==
            IF i = 0 THEN 0
            ELSE IF historial[i].estado = "Entregado" THEN i
            ELSE f[i - 1]
    IN  f[Len(historial)]

\* Lines 331-335: the entries in order, stopping at the first "Entregado".
\* The result is the index of that entry, 0 for None.  Both timestamps are
\* parsed from whole-second texts, so their difference is in whole seconds.
fecha_entregado(historial) ==
    LET f[i \in 1..(Len(historial) + 1)] ==
            IF i > Len(historial) THEN 0
            ELSE IF historial[i].estado = "Entregado" THEN i
            ELSE f[i + 1]
    IN  f[1]

\* Lines 328-339: tiempos_entrega as its sum, in seconds, and its length.
tiempos_entrega(es, entregados) ==
    LET t[S \in SUBSET entregados] ==
            IF S = {} THEN [suma |-> 0, n |-> 0]
            ELSE LET g == CHOOSE x \in S : TRUE
                     h == es[g].historial_estados
                     i == fecha_entregado(h)
                     antes == t[S \ {g}]
                 IN  IF i # 0
                     THEN [suma |-> antes.suma + (h[i].fecha - h[1].fecha),
                           n |-> antes.n + 1]
                     ELSE antes
    IN  t[entregados]

\* Line 341.  The mean in hours is segundos / (3600 * entre), kept as the
\* exact fraction; "0" is 0 / 1.
tiempo_promedio(tiempos) ==
    IF tiempos.n # 0
    THEN [segundos |-> tiempos.suma, entre |-> tiempos.n]
    ELSE [segundos |-> 0, entre |-> 1]

\* The exception the body raises, "ok" when it returns: ValueError when the
\* comprehension of lines 303-307 parses the date text of a shipment (of
\* every shipment, in the period or not), KeyError at line 312 for a status
\* that is no key of conteo_estados, IndexError at line 330 for a delivered
\* shipment with an empty history.
informe_error(es, fecha_inicio, fecha_fin) ==
    LET periodo == envios_periodo(es, fecha_inicio, fecha_fin)
    IN  IF \E g \in DOMAIN es : strptime_falla(strftime_fecha(es[g].fecha_envio))
        THEN "ValueError"
        ELSE IF \E g \in periodo : es[g].estado \notin Rango(ESTADOS_ENVIO)
        THEN "KeyError"
        ELSE IF \E g \in envios_entregados(es, periodo) : Len(es[g].historial_estados) = 0
        THEN "IndexError"
        ELSE "ok"

informe_falla(es, fecha_inicio, fecha_fin) ==
    informe_error(es, fecha_inicio, fecha_fin) # "ok"

generar_informe_envios(es, fecha_inicio, fecha_fin) ==
    LET periodo == envios_periodo(es, fecha_inicio, fecha_fin)
        entregados == envios_entregados(es, periodo)
    IN  IF informe_falla(es, fecha_inicio, fecha_fin)
        THEN [error |-> informe_error(es, fecha_inicio, fecha_fin)]
        ELSE [total_envios |-> Cardinality(periodo),
              conteo_estados |-> conteo_estados(es, periodo),
              conteo_ciudades |-> conteo_ciudades(es, periodo),
              envios_entregados |-> Cardinality(entregados),
              tiempo_promedio_entrega_horas |->
                  tiempo_promedio(tiempos_entrega(es, entregados))]

\* The call: it returns the report or raises, and changes nothing.
informe(fecha_inicio, fecha_fin) ==
    /\ ultima' = Llamada("generar_informe_envios", "",
                         informe_error(envios, fecha_inicio, fecha_fin), "sin_guardar")
    /\ UNCHANGED <<clientes, envios, orden, disco, reloj, fallos>>

\* Mutant: a tracking number that is not found gets no entry.
Mut_buscar_multiple_solo_hallados(numeros_guia) ==
    [g \in Rango(numeros_guia) \cap DOMAIN envios |-> envios[g]]

\* The dict comprehension of line 288: the list in order, every item
\* assigning its key, a repeated key assigned again.
buscar_multiple_envios(numeros_guia) ==
    LET d[i \in 0..Len(numeros_guia)] ==
            IF i = 0 THEN VACIO
            ELSE LET numero_guia == numeros_guia[i]
                     antes == d[i - 1]
                 IN  (numero_guia :> buscar_envio(numero_guia)) @@ antes
    IN  d[Len(numeros_guia)]

\* The call: it returns the mapping and changes nothing.
consulta_multiple(numeros_guia) ==
    /\ ultima' = Llamada("buscar_multiple_envios", "", "ok", "sin_guardar")
    /\ UNCHANGED <<clientes, envios, orden, disco, reloj, fallos>>

(***************************************************************************)
(* Spec: runs that exercise both collections and the shipment life cycle,  *)
(* every persist succeeding.                                               *)
(***************************************************************************)
Ahoras == reloj..MaxReloj

\* The value uuid4 gives next.  The values are interchangeable labels, so
\* the runs draw them in one order; when all are in use only a call that
\* raises before it draws one can be made.
SiguienteGuia == {CHOOSE g \in (IF uuid4 = {} THEN Guias ELSE uuid4) : TRUE}

ClienteDe(id, tipo, io) ==
    registrar_cliente("Ana", "Gomez", id, tipo, "Calle 1", "", "300", "Centro", io)

CambioDe(id, dir, io) == actualizar_cliente(id, dir, NINGUNO, "", NINGUNO, io)

EnvioDe(f, id, g, t, io) ==
    registrar_envio(f, "Luis", "Carrera 9", "555", "Bogota", "Norte", id, g, t, io)

\* 0999-12-31 01:00:00, then two days of the year 1000.
FECHA_0 == [dia |-> 0, seg |-> 3600, micro |-> 0]

FECHA_1 == [dia |-> 1, seg |-> 3600, micro |-> 0]

FECHA_2 == [dia |-> 2, seg |-> 3605, micro |-> 7]

RegistrarCliente ==
    \E id \in Ids, tipo \in {"CC", "NIT"} : ClienteDe(id, tipo, "ok")

ActualizarCliente ==
    \E id \in Ids \cup {ID_AUSENTE}, dir \in {"", "Calle 2"} : CambioDe(id, dir, "ok")

RegistrarEnvio ==
    \E id \in Ids \cup {ID_AUSENTE}, g \in SiguienteGuia : EnvioDe(FECHA_1, id, g, reloj, "ok")

ActualizarEstadoEnvio ==
    \E g \in Guias \cup {GUIA_AUSENTE}, e \in {"En Reparto", "Entregado", "Perdido"},
       t \in Ahoras :
        actualizar_estado_envio(g, e, "nota", t, "ok")

Reiniciar == reiniciar

Next ==
    \/ RegistrarCliente
    \/ ActualizarCliente
    \/ RegistrarEnvio
    \/ ActualizarEstadoEnvio
    \/ Reiniciar

Spec == Init /\ [][Next]_vars

(***************************************************************************)
(* SpecEstados: one customer, one shipment, every status of the list and   *)
(* one outside it as the new status.                                       *)
(***************************************************************************)
RegistrarClienteE == \E tipo \in TiposEntrada : ClienteDe("1001", tipo, "ok")

ActualizarClienteE == \E dir \in {NINGUNO, "Calle 2"} : CambioDe("1001", dir, "ok")

RegistrarEnvioE == EnvioDe(FECHA_1, "1001", "g-a", reloj, "ok")

ActualizarEstadoEnvioE ==
    \E g \in {"g-a", GUIA_AUSENTE}, e \in EstadosEntrada, d \in Descripciones :
        actualizar_estado_envio(g, e, d, reloj, "ok")

ReiniciarE == reiniciar

NextEstados ==
    \/ RegistrarClienteE
    \/ ActualizarClienteE
    \/ RegistrarEnvioE
    \/ ActualizarEstadoEnvioE
    \/ ReiniciarE

SpecEstados == Init /\ [][NextEstados]_vars

(***************************************************************************)
(* SpecPersistencia: the persist step may fail (at most MaxFallos times),  *)
(* the process may be restarted, and a send datetime may carry             *)
(* microseconds.                                                           *)
(***************************************************************************)
RegistrarClienteP == \E id \in Ids, tipo \in {"CC", "NIT"}, io \in IOs : ClienteDe(id, tipo, io)

ActualizarClienteP ==
    \E id \in {"1001", ID_AUSENTE}, io \in IOs : CambioDe(id, "Calle 2", io)

RegistrarEnvioP ==
    \E f \in {FECHA_1, FECHA_2}, id \in {"1001", ID_AUSENTE}, g \in SiguienteGuia, io \in IOs :
        EnvioDe(f, id, g, reloj, io)

ActualizarEstadoEnvioP ==
    \E g \in Guias \cup {GUIA_AUSENTE}, e \in {"Entregado", "Perdido"}, io \in IOs :
        actualizar_estado_envio(g, e, "nota", reloj, io)

ReiniciarP == reiniciar

NextPersistencia ==
    \/ RegistrarClienteP
    \/ ActualizarClienteP
    \/ RegistrarEnvioP
    \/ ActualizarEstadoEnvioP
    \/ ReiniciarP

SpecPersistencia == Init /\ [][NextPersistencia]_vars

(***************************************************************************)
(* SpecConsultas: shipments of two days and two cities, delivered at       *)
(* different seconds, a shipment sent in the year 999, and the two queries *)
(* over them.                                                              *)
(***************************************************************************)
Ciudades == {"Bogota", "Cali"}

\* The days a period starts or ends on: the two days of the year 1000 and
\* the day after them.
Dias == FECHA_1.dia..(FECHA_2.dia + 1)

\* The lists of at most MaxLista tracking numbers, repeated ones included.
Listas == UNION {[1..n -> Guias \cup {GUIA_AUSENTE}] : n \in 0..MaxLista}

RegistrarClienteQ == ClienteDe("1001", "CC", "ok")

RegistrarEnvioQ ==
    \E f \in {FECHA_0, FECHA_1, FECHA_2}, ciudad \in Ciudades, g \in SiguienteGuia :
        registrar_envio(f, "Luis", "Carrera 9", "555", ciudad, "Norte", "1001", g, reloj, "ok")

ActualizarEstadoEnvioQ ==
    \E g \in Guias, e \in {"En Reparto", "Entregado", "Perdido"}, t \in Ahoras :
        actualizar_estado_envio(g, e, "nota", t, "ok")

GenerarInformeQ == \E fecha_inicio \in Dias, fecha_fin \in Dias : informe(fecha_inicio, fecha_fin)

BuscarMultipleQ == \E numeros_guia \in Listas : consulta_multiple(numeros_guia)

NextConsultas ==
    \/ RegistrarClienteQ
    \/ RegistrarEnvioQ
    \/ ActualizarEstadoEnvioQ
    \/ GenerarInformeQ
    \/ BuscarMultipleQ

SpecConsultas == Init /\ [][NextConsultas]_vars

(***************************************************************************)
(* SpecClientes: two customers, and for one of them every combination of   *)
(* the four contact fields of an update, each absent, empty or a new       *)
(* value.                                                                  *)
(***************************************************************************)
Direcciones == {NINGUNO, "", "Calle 2"}

Telefonos == {NINGUNO, "", "601"}

Celulares == {NINGUNO, "", "311"}

Barrios == {NINGUNO, "", "Sur"}

RegistrarClienteC == \E id \in Ids : ClienteDe(id, "CC", "ok")

ActualizarClienteC ==
    \E id \in {"1001", ID_AUSENTE}, direccion \in Direcciones, telefono_fijo \in Telefonos,
       celular \in Celulares, barrio \in Barrios :
        actualizar_cliente(id, direccion, telefono_fijo, celular, barrio, "ok")

RegistrarEnvioC == \E id \in Ids : EnvioDe(FECHA_1, id, "g-a", reloj, "ok")

ReiniciarC == reiniciar

NextClientes ==
    \/ RegistrarClienteC
    \/ ActualizarClienteC
    \/ RegistrarEnvioC
    \/ ReiniciarC

SpecClientes == Init /\ [][NextClientes]_vars

(***************************************************************************)
(* SpecServicio: one process from the empty repository to its end, the     *)
(* four mutating operations alone, their persist step failing or not.      *)
(***************************************************************************)
RegistrarClienteS == \E id \in Ids, tipo \in {"CC", "NIT"}, io \in IOs : ClienteDe(id, tipo, io)

ActualizarClienteS ==
    \E id \in {"1001", ID_AUSENTE}, io \in IOs : CambioDe(id, "Calle 2", io)

RegistrarEnvioS ==
    \E f \in {FECHA_1, FECHA_2}, id \in Ids \cup {ID_AUSENTE}, g \in SiguienteGuia, io \in IOs :
        EnvioDe(f, id, g, reloj, io)

ActualizarEstadoEnvioS ==
    \E g \in Guias \cup {GUIA_AUSENTE}, e \in {"Entregado", "Perdido"}, io \in IOs :
        actualizar_estado_envio(g, e, "nota", reloj, io)

NextServicio ==
    \/ RegistrarClienteS
    \/ ActualizarClienteS
    \/ RegistrarEnvioS
    \/ ActualizarEstadoEnvioS

SpecServicio == Init /\ [][NextServicio]_vars

(***************************************************************************)
(* SpecRecarga: one customer, shipments sent in the year 999 and in the    *)
(* year 1000, every persist succeeding, and restarts of the process on the *)
(* files it wrote.                                                         *)
(***************************************************************************)
RegistrarClienteR == ClienteDe("1001", "CC", "ok")

ActualizarClienteR == CambioDe("1001", "Calle 2", "ok")

RegistrarEnvioR ==
    \E f \in {FECHA_0, FECHA_1, FECHA_2}, g \in SiguienteGuia :
        EnvioDe(f, "1001", g, reloj, "ok")

ActualizarEstadoEnvioR ==
    \E g \in Guias, e \in {"En Reparto", "Entregado"}, t \in Ahoras :
        actualizar_estado_envio(g, e, "nota", t, "ok")

ReiniciarR == reiniciar

NextRecarga ==
    \/ RegistrarClienteR
    \/ ActualizarClienteR
    \/ RegistrarEnvioR
    \/ ActualizarEstadoEnvioR
    \/ ReiniciarR

SpecRecarga == Init /\ [][NextRecarga]_vars

\* The outcome of the persist step of this step's call; a call that raises
\* before it persists takes the same step whatever the outcome would be.
IoDelPaso == IF ultima'.io \in IOs THEN ultima'.io ELSE "ok"

(***************************************************************************)
(* Steps of the service, as the claims speak of them.                      *)
(***************************************************************************)
\* This step is the call actualizar_estado_envio(g, e, d).
PasoActualizarEstado(g, e, d) ==
    /\ ultima'.op = "actualizar_estado_envio"
    /\ ultima'.arg = e
    /\ actualizar_estado_envio(g, e, d, reloj', IoDelPaso)

\* This step is the call registrar_cliente(.., id, tipo, ..).
PasoRegistrarCliente(id, tipo) ==
    /\ ultima'.op = "registrar_cliente"
    /\ ultima'.arg = tipo
    /\ ClienteDe(id, tipo, IoDelPaso)

\* This step is the call registrar_envio(f, .., id); g is the uuid4 drawn.
PasoRegistrarEnvio(f, id, g) ==
    /\ ultima'.op = "registrar_envio"
    /\ EnvioDe(f, id, g, reloj', IoDelPaso)

EnDisco == [clientes |-> Documento(clientes_data(clientes, orden.clientes)),
            envios |-> Documento(envios_data(envios, orden.envios))]

GuiasEntrada == Guias \cup {GUIA_AUSENTE}

IdsEntrada == Ids \cup {ID_AUSENTE}

Historial(g) == envios[g].historial_estados

(***************************************************************************)
(* C1.  In every reachable state, whatever calls succeeded or failed, each *)
(* shipment's estado is the estado of the last entry of its                *)
(* historial_estados.                                                      *)
(***************************************************************************)
C1_EstadoEsUltimoDelHistorial ==
    \A g \in DOMAIN envios :
        /\ Len(Historial(g)) >= 1
        /\ envios[g].estado = Ultimo(Historial(g)).estado

\* A failed update has just been refused on a repository that holds a
\* shipment advanced twice, to a status other than its previous one.
C1_Witness ==
    /\ ultima.op = "actualizar_estado_envio"
    /\ ultima.res = "InvalidStatus"
    /\ \E g \in DOMAIN envios :
          /\ Len(Historial(g)) = 3
          /\ Historial(g)[2].estado = "Entregado"
          /\ envios[g].estado = "En Reparto"

(***************************************************************************)
(* C2.  Every call of actualizar_estado_envio that returns appends exactly *)
(* one entry {nuevo_estado, now, descripcion} to that shipment's history:  *)
(* the length grows by one, the old history is a prefix of the new one,    *)
(* and no other shipment changes.                                          *)
(***************************************************************************)
C2_Efecto(g, e, d) ==
    /\ DOMAIN envios' = DOMAIN envios
    /\ Len(envios'[g].historial_estados) = Len(Historial(g)) + 1
    /\ SubSeq(envios'[g].historial_estados, 1, Len(Historial(g))) = Historial(g)
    /\ Ultimo(envios'[g].historial_estados) = Entrada(e, reloj', d)
    /\ \A o \in DOMAIN envios \ {g} : envios'[o] = envios[o]

C2_AgregaUnaEntrada ==
    [][ultima'.op = "actualizar_estado_envio" =>
        \A g \in GuiasEntrada, e \in EstadosEntrada, d \in Descripciones \cup {"nota"} :
          (PasoActualizarEstado(g, e, d) /\ ultima'.res = "ok") => C2_Efecto(g, e, d)]_vars

\* Two shipments, one of them updated twice, the last update at a later
\* second than the first.
C2_Witness ==
    /\ ultima.op = "actualizar_estado_envio"
    /\ ultima.res = "ok"
    /\ Cardinality(DOMAIN envios) = 2
    /\ \E g \in DOMAIN envios :
          /\ Len(Historial(g)) = 3
          /\ Historial(g)[3].fecha > Historial(g)[2].fecha

(***************************************************************************)
(* C3.  No two shipments of the repository share a tracking number, every  *)
(* key of the repository is the numero_guia of the shipment stored under   *)
(* it, and no step changes the numero_guia of a shipment.                  *)
(***************************************************************************)
C3_ClavesSonGuias ==
    /\ \A k \in DOMAIN envios : envios[k].numero_guia = k
    /\ \A k1, k2 \in DOMAIN envios :
          k1 # k2 => envios[k1].numero_guia # envios[k2].numero_guia

C3_GuiaNoCambia ==
    \A k \in DOMAIN envios \cap DOMAIN envios' :
        envios'[k].numero_guia = envios[k].numero_guia

C3_GuiaUnicaYEstable == []C3_ClavesSonGuias /\ [][C3_GuiaNoCambia]_vars

\* Two shipments of the same sender, one advanced, and the sender's record
\* updated since.
C3_Witness ==
    /\ Cardinality(DOMAIN envios) = 2
    /\ \E g1, g2 \in DOMAIN envios :
          /\ g1 # g2
          /\ envios[g1].id_remitente = envios[g2].id_remitente
          /\ Len(Historial(g1)) = 2
          /\ envios[g1].id_remitente \in DOMAIN clientes
          /\ clientes[envios[g1].id_remitente].direccion = "Calle 2"

(***************************************************************************)
(* C4.  registrar_cliente with an id_numero that is already a key of       *)
(* clientes fails with the duplicate-identifier error whatever the other   *)
(* fields are, an invalid tipo_id included, and leaves both collections    *)
(* and the documents as they were.                                         *)
(***************************************************************************)
C4_DuplicadoRechazado ==
    [][ultima'.op = "registrar_cliente" =>
        \A id \in IdsEntrada, tipo \in TiposEntrada :
          (PasoRegistrarCliente(id, tipo) /\ id \in DOMAIN clientes) =>
              /\ ultima'.res = "DuplicateIdentifier"
              /\ clientes' = clientes
              /\ envios' = envios
              /\ disco' = disco]_vars

\* A duplicate registration with an invalid tipo_id has just been refused;
\* there are two customers, one with an updated address (the call carried
\* "Calle 1"), and a shipment.
C4_Witness ==
    /\ ultima.op = "registrar_cliente"
    /\ ultima.res = "DuplicateIdentifier"
    /\ ultima.arg = "NIT"
    /\ DOMAIN clientes = Ids
    /\ \A id \in Ids : clientes[id].direccion = "Calle 2"
    /\ DOMAIN envios # {}

(***************************************************************************)
(* C5.  actualizar_estado_envio fails with NotFound when the tracking      *)
(* number is not in the repository and with InvalidStatus when the new     *)
(* status is not one of the six; in both cases no shipment changes and     *)
(* nothing is written to the documents.                                    *)
(***************************************************************************)
C5_FallaSinEfecto ==
    [][ultima'.op = "actualizar_estado_envio" =>
        \A g \in GuiasEntrada, e \in EstadosEntrada, d \in Descripciones \cup {"nota"} :
          PasoActualizarEstado(g, e, d) =>
              /\ g \notin DOMAIN envios => ultima'.res = "NotFound"
              /\ (g \in DOMAIN envios /\ e \notin Rango(ESTADOS_ENVIO)) =>
                     ultima'.res = "InvalidStatus"
              /\ ultima'.res \in {"NotFound", "InvalidStatus"} =>
                     /\ g \notin DOMAIN envios \/ e \notin Rango(ESTADOS_ENVIO)
                     /\ envios' = envios
                     /\ clientes' = clientes
                     /\ disco' = disco]_vars

\* An invalid status has just been refused for a shipment whose last
\* persist failed, so that the documents differ from what a write would
\* have stored.
C5_Witness ==
    /\ ultima.op = "actualizar_estado_envio"
    /\ ultima.res = "InvalidStatus"
    /\ DOMAIN envios # {}
    /\ disco # EnDisco

(***************************************************************************)
(* C6.  registrar_envio with a sender that is not a key of clientes fails  *)
(* with NotFound, creates no shipment and leaves both collections and the  *)
(* documents unchanged.                                                    *)
(***************************************************************************)
C6_RemitenteDesconocido ==
    [][ultima'.op = "registrar_envio" =>
        \A f \in {FECHA_1, FECHA_2}, id \in IdsEntrada, g \in Guias :
          (PasoRegistrarEnvio(f, id, g) /\ id \notin DOMAIN clientes) =>
              /\ ultima'.res = "NotFound"
              /\ envios' = envios
              /\ clientes' = clientes
              /\ disco' = disco]_vars

\* The call has just been refused while another customer is registered
\* and the documents lag behind the collections.
C6_Witness ==
    /\ ultima.op = "registrar_envio"
    /\ ultima.res = "NotFound"
    /\ DOMAIN clientes # {}
    /\ disco # EnDisco

(***************************************************************************)
(* C7.  A shipment just created by registrar_envio has status Recibido and *)
(* a history of exactly one entry, {Recibido, the clock at creation, the   *)
(* fixed reception note}; and that first entry stays the same through      *)
(* every later step.                                                       *)
(***************************************************************************)
C7_PrimeraEntrada ==
    \A g \in DOMAIN envios :
        /\ Historial(g)[1].estado = "Recibido"
        /\ Historial(g)[1].descripcion = "Paquete recibido en la oficina"

C7_Paso ==
    /\ ultima'.op = "registrar_envio" =>
          \A g \in DOMAIN envios' \ DOMAIN envios :
              /\ envios'[g].estado = "Recibido"
              /\ envios'[g].historial_estados =
                    <<[estado |-> "Recibido", fecha |-> reloj',
                       descripcion |-> "Paquete recibido en la oficina"]>>
    /\ \A g \in DOMAIN envios \cap DOMAIN envios' :
          envios'[g].historial_estados[1] = Historial(g)[1]

C7_EntradaDeCreacion == []C7_PrimeraEntrada /\ [][C7_Paso]_vars

\* A shipment created at second 0 and advanced twice, last at second 1.
C7_Witness ==
    \E g \in DOMAIN envios :
        /\ Len(Historial(g)) = 3
        /\ Historial(g)[1].fecha = 0
        /\ Historial(g)[3].fecha = 1
        /\ envios[g].estado = "Entregado"

(***************************************************************************)
(* C8.  No transition graph is enforced: whatever the current status of an *)
(* existing shipment, Entregado included, an update to any of the six      *)
(* statuses, the current one included, is possible and succeeds.           *)
(***************************************************************************)
C8_Habilitada ==
    \A g \in DOMAIN envios, t \in Rango(ESTADOS_ENVIO) :
        Avances < MaxAvances =>
            ENABLED (/\ actualizar_estado_envio(g, t, "nota", reloj, "ok")
                     /\ ultima'.res = "ok"
                     /\ envios'[g].estado = t)

C8_Exito ==
    \A g \in DOMAIN envios, t \in Rango(ESTADOS_ENVIO), d \in Descripciones :
        PasoActualizarEstado(g, t, d) =>
            /\ ultima'.res = "ok"
            /\ envios'[g].estado = t

C8_TransicionLibre == []C8_Habilitada /\ [][C8_Exito]_vars

\* A delivered shipment has been sent back to the first status.
C8_Witness ==
    \E g \in DOMAIN envios :
        /\ Len(Historial(g)) = 3
        /\ Historial(g)[2].estado = "Entregado"
        /\ Historial(g)[3].estado = "Recibido"
        /\ envios[g].estado = "Recibido"

(***************************************************************************)
(* C9.  After each mutating call that returned and whose persist step did  *)
(* not fail, the customers document and the shipments document are the     *)
(* serialization of the complete in-memory collections; and as long as no  *)
(* persist has failed, once a mutation has happened the documents and the  *)
(* collections agree.                                                      *)
(***************************************************************************)
Mutaciones ==
    {"registrar_cliente", "actualizar_cliente", "registrar_envio", "actualizar_estado_envio"}

C9_PersistenciaCompleta ==
    /\ (ultima.op \in Mutaciones /\ ultima.res = "ok" /\ ultima.io = "ok") =>
          disco = EnDisco
    /\ (fallos = 0 /\ disco.clientes.archivo # "ausente") => disco = EnDisco

\* A status update has just been persisted after an earlier persist had
\* failed.
C9_Witness ==
    /\ ultima.op = "actualizar_estado_envio"
    /\ ultima.res = "ok"
    /\ ultima.io = "ok"
    /\ fallos = 1
    /\ Cardinality(DOMAIN envios) = 2

(***************************************************************************)
(* C10.  Persisting both collections and loading them into a new           *)
(* repository yields the same keys and, field for field, the same records: *)
(* every customer field, and for every shipment its send date and time,    *)
(* recipient, sender, tracking number, status and history in order.        *)
(* As stated (C10_IdaYVueltaIdentica) this fails twice over: a shipment    *)
(* sent in a year below 1000 is written with a date text that the load     *)
(* cannot parse, so it and every shipment after it in the file are not     *)
(* loaded; and the send time is written in whole seconds.                  *)
(***************************************************************************)
Recargado == guardar_datos(clientes, envios, orden, disco, "ok")

C10_IdaYVueltaIdentica ==
    /\ cargar_clientes(Recargado) = clientes
    /\ cargar_envios(Recargado) = envios

SinMicrosegundos(e) ==
    [e EXCEPT !.fecha_envio = [@ EXCEPT !.micro = 0],
              !.hora_envio = [@ EXCEPT !.micro = 0]]

AniosDeCuatroCifras ==
    \A g \in DOMAIN envios : ~strptime_falla(strftime_fecha(envios[g].fecha_envio))

\* What holds of the round trip: with every send date in a year of four
\* digits, all comes back identical but the microsecond of the send time.
C10_IdaYVueltaSalvoMicrosegundos ==
    AniosDeCuatroCifras =>
        /\ cargar_clientes(Recargado) = clientes
        /\ cargar_orden(Recargado) = orden
        /\ DOMAIN cargar_envios(Recargado) = DOMAIN envios
        /\ \A g \in DOMAIN envios : cargar_envios(Recargado)[g] = SinMicrosegundos(envios[g])

\* A process has just started on files the program wrote with every
\* persist succeeding, and holds fewer shipments than the shipments' file.
C10_Witness ==
    /\ ultima.op = "__init__"
    /\ disco.envios.archivo = "json"
    /\ \E g \in DOMAIN disco.envios.datos :
          /\ g \notin DOMAIN envios
          /\ strptime_falla(disco.envios.datos[g].fecha_envio)

\* A customer with an updated address, a shipment sent at a time with
\* seconds and microseconds, advanced once.
C10_SalvoMicrosegundosWitness ==
    /\ AniosDeCuatroCifras
    /\ \E id \in DOMAIN clientes : clientes[id].direccion = "Calle 2"
    /\ \E g \in DOMAIN envios :
          /\ envios[g].fecha_envio = FECHA_2
          /\ Len(Historial(g)) = 2

\* The shipments of a period, by their send day, and the sum of a mapping
\* of counts.
Dentro(fecha_inicio, fecha_fin) ==
    {g \in DOMAIN envios :
        /\ fecha_inicio <= envios[g].fecha_envio.dia
        /\ envios[g].fecha_envio.dia <= fecha_fin}

Suma(conteo) ==
    LET s[K \in SUBSET DOMAIN conteo] ==
            IF K = {} THEN 0
            ELSE LET k == CHOOSE x \in K : TRUE IN conteo[k] + s[K \ {k}]
    IN  s[DOMAIN conteo]

(***************************************************************************)
(* C11: the report of a period, whenever one is returned, counts exactly   *)
(* the shipments whose send date, the day alone without the time of day,   *)
(* lies between the start and the end, both included; total_envios is that *)
(* number; a start after the end gives total_envios 0 and a zero for every *)
(* status.                                                                 *)
(***************************************************************************)
C11_TotalDelPeriodo ==
    \A fecha_inicio \in Dias, fecha_fin \in Dias :
        ~informe_falla(envios, fecha_inicio, fecha_fin) =>
            LET r == generar_informe_envios(envios, fecha_inicio, fecha_fin)
            IN  /\ r.total_envios = Cardinality(Dentro(fecha_inicio, fecha_fin))
                /\ fecha_inicio > fecha_fin =>
                      /\ r.total_envios = 0
                      /\ \A estado \in Rango(ESTADOS_ENVIO) : r.conteo_estados[estado] = 0

\* A report was returned while one shipment of each of the two days is
\* registered: the period of the second day alone holds the one sent at
\* 01:00:05 of that day, the inverted period holds none.
C11_Witness ==
    /\ ultima.op = "generar_informe_envios"
    /\ ultima.res = "ok"
    /\ {envios[g].fecha_envio : g \in DOMAIN envios} = {FECHA_1, FECHA_2}
    /\ generar_informe_envios(envios, FECHA_2.dia, FECHA_2.dia).total_envios = 1
    /\ generar_informe_envios(envios, FECHA_1.dia, FECHA_2.dia).total_envios = 2
    /\ generar_informe_envios(envios, FECHA_2.dia, FECHA_1.dia).total_envios = 0

\* What C12 says of a report that is returned.
ConteosDelInforme(fecha_inicio, fecha_fin) ==
    LET r == generar_informe_envios(envios, fecha_inicio, fecha_fin)
        dentro == Dentro(fecha_inicio, fecha_fin)
    IN  /\ DOMAIN r.conteo_estados = Rango(ESTADOS_ENVIO)
        /\ \A estado \in Rango(ESTADOS_ENVIO) :
              r.conteo_estados[estado] =
                  Cardinality({g \in dentro : envios[g].estado = estado})
        /\ Suma(r.conteo_estados) = r.total_envios
        /\ DOMAIN r.conteo_ciudades = {envios[g].destinatario.ciudad : g \in dentro}
        /\ \A ciudad \in DOMAIN r.conteo_ciudades :
              r.conteo_ciudades[ciudad] =
                  Cardinality({g \in dentro : envios[g].destinatario.ciudad = ciudad})
        /\ Suma(r.conteo_ciudades) = r.total_envios

(***************************************************************************)
(* C12: conteo_estados has exactly the six statuses as keys, each with the *)
(* number of shipments of the period in that current status, zero          *)
(* included, and the six counts add up to total_envios; conteo_ciudades    *)
(* has only the destination cities of shipments of the period, each with   *)
(* its number of shipments, adding up to total_envios; and the report      *)
(* never raises in a state the service operations reach.                   *)
(***************************************************************************)
C12_ConteosDelInforme ==
    \A fecha_inicio \in Dias, fecha_fin \in Dias :
        /\ ~informe_falla(envios, fecha_inicio, fecha_fin)
        /\ ConteosDelInforme(fecha_inicio, fecha_fin)

\* The part of C12 that holds: the counts of every report that is returned.
C12_ConteosSiRetorna ==
    \A fecha_inicio \in Dias, fecha_fin \in Dias :
        ~informe_falla(envios, fecha_inicio, fecha_fin) =>
            ConteosDelInforme(fecha_inicio, fecha_fin)

\* A report was asked for while a shipment sent in the year 999 is
\* registered, and the call raised.
C12_Witness ==
    /\ ultima.op = "generar_informe_envios"
    /\ ultima.res = "ValueError"
    /\ \E g \in DOMAIN envios : envios[g].fecha_envio = FECHA_0

\* A report was returned over two shipments of different days, cities and
\* statuses: the whole period counts both cities, the first day alone one.
C12_ConteosWitness ==
    /\ ultima.op = "generar_informe_envios"
    /\ ultima.res = "ok"
    /\ Cardinality(DOMAIN envios) = 2
    /\ LET todo == generar_informe_envios(envios, FECHA_1.dia, FECHA_2.dia)
           uno == generar_informe_envios(envios, FECHA_1.dia, FECHA_1.dia)
       IN  /\ todo.conteo_estados["Entregado"] = 1
           /\ todo.conteo_estados["Recibido"] = 1
           /\ todo.conteo_estados["En Reparto"] = 0
           /\ DOMAIN todo.conteo_ciudades = Ciudades
           /\ Cardinality(DOMAIN uno.conteo_ciudades) = 1

\* The delivered shipments of a period, those of them whose history has an
\* "Entregado" entry, and the seconds from the creation entry of a history
\* to its first "Entregado" entry.
Entregados(fecha_inicio, fecha_fin) ==
    {g \in Dentro(fecha_inicio, fecha_fin) : envios[g].estado = "Entregado"}

ConEntrada(S) ==
    {g \in S : \E k \in 1..Len(Historial(g)) : Historial(g)[k].estado = "Entregado"}

SegundosHastaEntrega(g) ==
    LET h == Historial(g)
        k == CHOOSE i \in 1..Len(h) :
                 /\ h[i].estado = "Entregado"
                 /\ \A j \in 1..(i - 1) : h[j].estado # "Entregado"
    IN  h[k].fecha - h[1].fecha

(***************************************************************************)
(* C13: in a report that is returned, envios_entregados is the number of   *)
(* shipments of the period whose current status is Entregado, and          *)
(* tiempo_promedio_entrega_horas is the mean, over those of them whose     *)
(* history has an Entregado entry, of the time from the creation entry to  *)
(* the first Entregado entry, 0 when there is none.  A shipment whose      *)
(* status is Entregado without such an entry is counted in                 *)
(* envios_entregados and adds to neither the sum nor the divisor; one that *)
(* was Entregado and has moved to another status adds nothing.  The mean   *)
(* is the exact fraction segundos / (3600 * entre).                        *)
(***************************************************************************)
C13_EntregadosYPromedio ==
    \A fecha_inicio \in Dias, fecha_fin \in Dias :
        ~informe_falla(envios, fecha_inicio, fecha_fin) =>
            LET r == generar_informe_envios(envios, fecha_inicio, fecha_fin)
                medidos == ConEntrada(Entregados(fecha_inicio, fecha_fin))
            IN  /\ r.envios_entregados = Cardinality(Entregados(fecha_inicio, fecha_fin))
                /\ r.tiempo_promedio_entrega_horas =
                      IF medidos = {} THEN [segundos |-> 0, entre |-> 1]
                      ELSE [segundos |-> Suma([g \in medidos |-> SegundosHastaEntrega(g)]),
                            entre |-> Cardinality(medidos)]
                /\ \A g \in Dentro(fecha_inicio, fecha_fin) \ ConEntrada(DOMAIN envios) :
                      LET sin_entrada == [envios EXCEPT ![g].estado = "Entregado"]
                          r2 == generar_informe_envios(sin_entrada, fecha_inicio, fecha_fin)
                      IN  /\ r2.envios_entregados = r.envios_entregados + 1
                          /\ r2.tiempo_promedio_entrega_horas = r.tiempo_promedio_entrega_horas

\* A report was returned over two shipments: one delivered a second after
\* it was received, the other in delivery and never delivered.
C13_Witness ==
    /\ ultima.op = "generar_informe_envios"
    /\ ultima.res = "ok"
    /\ \E g \in DOMAIN envios, g2 \in DOMAIN envios :
          /\ envios[g].estado = "Entregado"
          /\ SegundosHastaEntrega(g) = MaxReloj
          /\ envios[g2].estado = "En Reparto"
          /\ g2 \notin ConEntrada(DOMAIN envios)
    /\ LET r == generar_informe_envios(envios, FECHA_1.dia, FECHA_2.dia)
       IN  /\ r.total_envios = 2
           /\ r.envios_entregados = 1
           /\ r.tiempo_promedio_entrega_horas = [segundos |-> MaxReloj, entre |-> 1]

(***************************************************************************)
(* C14: buscar_multiple_envios returns a mapping whose keys are exactly    *)
(* the distinct tracking numbers of the list it is given; a number that    *)
(* exists maps to its shipment, one that does not maps to None; a number   *)
(* given twice has one entry; and the call changes neither collection nor  *)
(* the documents.                                                          *)
(***************************************************************************)
C14_Mapa ==
    \A numeros_guia \in Listas :
        LET r == buscar_multiple_envios(numeros_guia)
            distintos == {numeros_guia[i] : i \in 1..Len(numeros_guia)}
        IN  /\ DOMAIN r = distintos
            /\ Cardinality(DOMAIN r) = Cardinality(distintos)
            /\ \A g \in distintos :
                  /\ g \in DOMAIN envios => r[g] = envios[g]
                  /\ g \notin DOMAIN envios => r[g] = None

C14_NoModifica ==
    [][ultima'.op = "buscar_multiple_envios" => UNCHANGED <<clientes, envios, disco>>]_vars

C14_ConsultaMultiple == []C14_Mapa /\ C14_NoModifica

\* The query was made while a shipment is registered: that number given
\* twice has one entry, its shipment; a number never issued maps to None.
C14_Witness ==
    /\ ultima.op = "buscar_multiple_envios"
    /\ \E g \in DOMAIN envios :
          /\ buscar_multiple_envios(<<g, g>>) = (g :> envios[g])
          /\ buscar_multiple_envios(<<GUIA_AUSENTE, g>>) =
                 (g :> envios[g]) @@ (GUIA_AUSENTE :> None)

\* This step is the call actualizar_cliente(id, direccion=.., ..), a keyword
\* left out being None.
PasoActualizarCliente(id, direccion, telefono_fijo, celular, barrio) ==
    /\ ultima'.op = "actualizar_cliente"
    /\ (id \in DOMAIN clientes) = (ultima'.res = "ok")
    /\ actualizar_cliente(id, direccion, telefono_fijo, celular, barrio,
                          IF ultima'.io \in IOs THEN ultima'.io ELSE "ok")

\* The value of a contact field after an update that supplied v.
Tras(v, antes) == IF v = NINGUNO \/ v = "" THEN antes ELSE v

(***************************************************************************)
(* C15: actualizar_cliente with an id that is not registered fails with    *)
(* the not-found error and changes nothing; with a registered id it        *)
(* overwrites exactly those of direccion, telefono_fijo, celular and       *)
(* barrio that were supplied with a non-empty value, leaves the absent and *)
(* the empty ones as they were, never changes nombres, apellidos,          *)
(* id_numero or tipo_id, and changes no other customer and no shipment.    *)
(***************************************************************************)
C15_Efecto ==
    \A id \in IdsEntrada, direccion \in Direcciones, telefono_fijo \in Telefonos,
       celular \in Celulares, barrio \in Barrios :
        PasoActualizarCliente(id, direccion, telefono_fijo, celular, barrio) =>
            IF id \notin DOMAIN clientes
            THEN /\ ultima'.res = "NotFound"
                 /\ UNCHANGED <<clientes, envios, disco>>
            ELSE /\ ultima'.res = "ok"
                 /\ DOMAIN clientes' = DOMAIN clientes
                 /\ \A otro \in DOMAIN clientes \ {id} : clientes'[otro] = clientes[otro]
                 /\ envios' = envios
                 /\ clientes'[id].direccion = Tras(direccion, clientes[id].direccion)
                 /\ clientes'[id].telefono_fijo = Tras(telefono_fijo, clientes[id].telefono_fijo)
                 /\ clientes'[id].celular = Tras(celular, clientes[id].celular)
                 /\ clientes'[id].barrio = Tras(barrio, clientes[id].barrio)
                 /\ clientes'[id].nombres = clientes[id].nombres
                 /\ clientes'[id].apellidos = clientes[id].apellidos
                 /\ clientes'[id].id_numero = clientes[id].id_numero
                 /\ clientes'[id].tipo_id = clientes[id].tipo_id

C15_ActualizaSoloLoDado == [][C15_Efecto]_vars

\* An update returned with one customer holding a new address and a new
\* neighbourhood beside the mobile number and the empty landline it was
\* registered with, the other customer as registered, and a shipment.
C15_Witness ==
    /\ ultima.op = "actualizar_cliente"
    /\ ultima.res = "ok"
    /\ DOMAIN clientes = Ids
    /\ DOMAIN envios # {}
    /\ \E id \in Ids, otro \in Ids :
          /\ otro # id
          /\ clientes[id].direccion = "Calle 2"
          /\ clientes[id].barrio = "Sur"
          /\ clientes[id].celular = "300"
          /\ clientes[id].telefono_fijo = ""
          /\ clientes[otro].direccion = "Calle 1"
          /\ clientes[otro].barrio = "Centro"

\* The step is a mutating call whose persist step raised inside
\* guardar_datos, and the outcome of the persist step of a call.
PersistenciaFallida == ultima'.op \in Mutaciones /\ ultima'.io \in IOs \ {"ok"}

(***************************************************************************)
(* C16: a persist step that fails is neither tried again nor raised to the *)
(* caller: the call returns, its change is in the in-memory collections    *)
(* and the documents are as the one failed attempt left them; later calls  *)
(* go by the in-memory collections, not by the documents; and the next     *)
(* persist step that succeeds leaves both documents equal to the in-memory *)
(* collections.                                                            *)
(***************************************************************************)
C16_Efecto ==
    /\ PersistenciaFallida =>
          /\ ultima'.res = "ok"
          /\ disco' = guardar_datos(clientes', envios', orden', disco, ultima'.io)
    /\ ultima'.op = "registrar_cliente" =>
          \A id \in IdsEntrada, tipo \in {ultima'.arg} :
              ClienteDe(id, tipo, IoDelPaso) =>
                  /\ (ultima'.res = "DuplicateIdentifier") = (id \in DOMAIN clientes)
                  /\ PersistenciaFallida => id \in DOMAIN clientes' \ DOMAIN clientes
    /\ ultima'.op = "actualizar_cliente" =>
          \A id \in IdsEntrada :
              CambioDe(id, "Calle 2", IoDelPaso) =>
                  /\ (ultima'.res = "NotFound") = (id \notin DOMAIN clientes)
                  /\ PersistenciaFallida => clientes'[id].direccion = "Calle 2"
    /\ ultima'.op = "registrar_envio" =>
          \A f \in {FECHA_1, FECHA_2}, id \in IdsEntrada, g \in Guias :
              EnvioDe(f, id, g, reloj', IoDelPaso) =>
                  /\ (ultima'.res = "NotFound") = (id \notin DOMAIN clientes)
                  /\ PersistenciaFallida => g \in DOMAIN envios' \ DOMAIN envios
    /\ ultima'.op = "actualizar_estado_envio" =>
          \A g \in GuiasEntrada, e \in {ultima'.arg} :
              actualizar_estado_envio(g, e, "nota", reloj', IoDelPaso) =>
                  /\ (ultima'.res = "NotFound") = (g \notin DOMAIN envios)
                  /\ PersistenciaFallida =>
                        /\ envios'[g].estado = e
                        /\ Len(envios'[g].historial_estados) = Len(Historial(g)) + 1

C16_Alcanza ==
    (ultima.op \in Mutaciones /\ ultima.res = "ok" /\ ultima.io = "ok" /\ fallos > 0) =>
        /\ disco.clientes = Documento(clientes_data(clientes, orden.clientes))
        /\ disco.envios = Documento(envios_data(envios, orden.envios))

C16_Paso == [][C16_Efecto]_vars

C16_FalloDePersistencia == []C16_Alcanza /\ C16_Paso

\* A shipment has just been registered by a call that returned although
\* its persist step failed: it is in memory and in no document.
C16_Witness ==
    /\ ultima.op = "registrar_envio"
    /\ ultima.res = "ok"
    /\ ultima.io \in IOs \ {"ok"}
    /\ disco # EnDisco
    /\ \E g \in DOMAIN envios : g \notin DOMAIN disco.envios.datos

(***************************************************************************)
(* C17: from the empty repository, after any sequence of service           *)
(* operations, every shipment's id_remitente is the key of a registered    *)
(* customer, and the set of customer ids and the set of tracking numbers   *)
(* only grow.                                                              *)
(***************************************************************************)
C17_RemitenteRegistrado ==
    \A g \in DOMAIN envios : envios[g].id_remitente \in DOMAIN clientes

C17_SoloCrecen ==
    [][/\ DOMAIN clientes \subseteq DOMAIN clientes'
       /\ DOMAIN envios \subseteq DOMAIN envios']_vars

C17_IntegridadReferencial == []C17_RemitenteRegistrado /\ C17_SoloCrecen

\* Two customers and two shipments of different senders are registered and
\* one shipment is updated, a persist step having failed on the way.
C17_Witness ==
    /\ DOMAIN clientes = Ids
    /\ {envios[g].id_remitente : g \in DOMAIN envios} = Ids
    /\ fallos = MaxFallos
    /\ ultima.op = "actualizar_estado_envio"
    /\ ultima.res = "ok"

====
